---- MODULE Spec2Model ----
(***************************************************************************)
(* Model of the declarative object-to-object transformation engine:        *)
(* PathUtils, ValueExtractor, ValueSetter, ValidatorFactory and the two    *)
(* DataAdaptor classes of the repository (the validating engine and the    *)
(* legacy-tolerant src/data-adaptor.js).                                   *)
(*                                                                         *)
(* JavaScript values are records [k, n]: k is the runtime category and n   *)
(* an integer payload (string-table index, number, boolean as 0/1, heap    *)
(* address).  Objects live in a heap (a sequence indexed by address), so   *)
(* object identity, aliasing and in-place mutation are observable.         *)
(* Strings that the code only concatenates (paths, messages) are token     *)
(* sequences; a path keeps "." as a token of its own and every other token *)
(* is one whole segment.                                                   *)
(***************************************************************************)
EXTENDS Integers, Sequences, FiniteSets, TLC

VARIABLES impl, config, source, heap, mapping, validators, pc, idx, out,
          err, result, ev, heap0, calls, prev, call, vcall, written

vars == <<impl, config, source, heap, mapping, validators, pc, idx, out,
          err, result, ev, heap0, calls, prev, call, vcall, written>>

\* ------------------------------------------------------------------ bounds
MaxRules == 2
MaxCalls == 2
MaxTokens == 3
Depth == 3
MaxOps == 4

\* ------------------------------------------------------------------ values
Undef == [k |-> "undefined", n |-> 0]
Null == [k |-> "null", n |-> 0]
Absent == [k |-> "absent", n |-> 0]
Str(i) == [k |-> "string", n |-> i]
Num(i) == [k |-> "number", n |-> i]
Bool(b) == [k |-> "boolean", n |-> IF b THEN 1 ELSE 0]
Ref(a) == [k |-> "ref", n |-> a]
Fn(i) == [k |-> "function", n |-> i]

\* string table: the empty string has index 0
StrText == <<"John", "d", "J">>
StrIndex(text) ==
  IF text = "" THEN Len(<<>>) ELSE CHOOSE i \in 1..Len(StrText) : StrText[i] = text
S(text) == Str(StrIndex(text))

\* the property names in use
KeySeq == <<"0", "1", "a", "obj", "k", "t", "set", "items", "abc", "x", "y", " ",
            "", "items[0]">>
Keys == {KeySeq[i] : i \in 1..Len(KeySeq)}

\* string descriptors of configuration fields: k is the category, s the tokens
SStr(s) == [k |-> "string", s |-> s]
SNone == [k |-> "absent", s |-> <<>>]
SNum == [k |-> "number", s |-> <<"5">>]

\* ------------------------------------------------------------------ errors
NoErr == [k |-> "none", m |-> <<>>]
Error(m) == [k |-> "Error", m |-> m]
TypeError(m) == [k |-> "TypeError", m |-> m]
ThrownString(m) == [k |-> "string", m |-> m]
ThrownNull == [k |-> "null", m |-> <<>>]
ThrownUndef == [k |-> "undefined", m |-> <<>>]

\* ------------------------------------------------------------------ heap
EmptyFields == [key \in Keys |-> Absent]
\* an object: its properties f, the non-writable (ro) and non-enumerable
\* (hidden) ones, and the order ord in which the properties were created
NewObj(isArr) ==
  [arr |-> isArr, f |-> EmptyFields, ro |-> {}, hidden |-> {}, ord |-> <<>>]
Alloc(h, isArr) == Append(h, NewObj(isArr))

IsArray(h, v) == v.k = "ref" /\ h[v.n].arr

\* typeof v
TypeOf(v) == IF v.k \in {"ref", "null"} THEN "object" ELSE v.k

\* the _typeOf / _getType helper of every validator
TypeName(h, v) ==
  IF v.k = "null" THEN "null"
  ELSE IF IsArray(h, v) THEN "array"
  ELSE TypeOf(v)

HasOwn(h, a, key) == h[a].f[key].k # "absent"

\* an object or array literal: the properties with a value, in the order written
Prop(key, v) == [key |-> key, v |-> v]

Literal(isArr, props) ==
  [arr |-> isArr,
   f |-> [key \in Keys |->
            IF \E i \in 1..Len(props) : props[i].key = key
              THEN props[CHOOSE i \in 1..Len(props) : props[i].key = key].v
            ELSE Absent],
   ro |-> {}, hidden |-> {},
   ord |-> [i \in 1..Len(SelectSeq(props, LAMBDA q : q.v # Absent)) |->
              SelectSeq(props, LAMBDA q : q.v # Absent)[i].key]]

ObjectLiteral(props) == Literal(FALSE, props)
ArrayLiteral(elems) ==
  Literal(TRUE, [i \in 1..Len(elems) |-> Prop(IF i = 1 THEN "0" ELSE "1", elems[i])])

\* value.length of an array of at most two elements
Length(h, v) ==
  IF HasOwn(h, v.n, "1") THEN 2 ELSE IF HasOwn(h, v.n, "0") THEN 1 ELSE 0

\* v[key] for a v that is neither null nor undefined
GetProp(h, v, key) ==
  IF v.k = "ref"
    THEN LET p == h[v.n].f[key] IN IF p.k = "absent" THEN Undef ELSE p
  ELSE IF v.k = "string" /\ key = "0" /\ v # S("")
    THEN (IF v = S("John") THEN S("J") ELSE v)
  ELSE Undef

\* obj[key] = val on a writable property
PutProp(h, a, key, val) ==
  [h EXCEPT ![a].f[key] = val,
            ![a].ord = IF h[a].f[key].k = "absent" THEN Append(@, key) ELSE @]

\* class bodies are strict code: assigning to a non-writable property throws
Writable(h, a, key) == key \notin h[a].ro
ReadOnlyError(key) ==
  [k |-> "TypeError", m |-> <<"Cannot assign to read only property '", key, "' of object">>]

\* !d for a configuration field d
SFalsy(d) ==
  \/ d.k \in {"absent", "null"}
  \/ d.k = "string" /\ d.s = <<>>

\* ------------------------------------------------------------------ PathUtils
PathFail(m) == [ok |-> FALSE, segs |-> <<>>, e |-> Error(<<m>>)]

\* path.split('.'): the text between the dots, "" where there is none
\* (a path has at most one token between two dots)
RECURSIVE SplitFrom(_, _, _)
SplitFrom(toks, i, cur) ==
  IF i > Len(toks) THEN <<cur>>
  ELSE IF toks[i] = "." THEN <<cur>> \o SplitFrom(toks, i + 1, "")
  ELSE SplitFrom(toks, i + 1, toks[i])

Split(toks) == SplitFrom(toks, 1, "")

\* parsePath without the test for consecutive dots
parsePathNoDoubleDot(p) ==
  IF p.k \in {"null", "absent"} THEN PathFail("Path cannot be null or undefined")
  ELSE IF p.k # "string" THEN PathFail("Path must be a string")
  ELSE IF Len(p.s) = 0 THEN PathFail("Path cannot be empty")
  ELSE IF \A i \in 1..Len(p.s) : p.s[i] = "." THEN PathFail("Invalid path format")
  ELSE IF p.s[1] = "." \/ p.s[Len(p.s)] = "."
    THEN PathFail("Path cannot start or end with a dot")
  ELSE [ok |-> TRUE, segs |-> Split(p.s), e |-> NoErr]

\* PathUtils.parsePath; p is a string descriptor
parsePath(p) ==
  IF p.k \in {"null", "absent"} THEN PathFail("Path cannot be null or undefined")
  ELSE IF p.k # "string" THEN PathFail("Path must be a string")
  ELSE IF Len(p.s) = 0 THEN PathFail("Path cannot be empty")
  ELSE IF \A i \in 1..Len(p.s) : p.s[i] = "." THEN PathFail("Invalid path format")
  ELSE IF p.s[1] = "." \/ p.s[Len(p.s)] = "."
    THEN PathFail("Path cannot start or end with a dot")
  ELSE IF \E i \in 1..(Len(p.s) - 1) : p.s[i] = "." /\ p.s[i + 1] = "."
    THEN PathFail("Path cannot contain consecutive dots")
  ELSE [ok |-> TRUE, segs |-> Split(p.s), e |-> NoErr]

\* ------------------------------------------------------------------ ValueExtractor
\* the loop of extract returning the node itself where it stops on null
RECURSIVE WalkReturnsNode(_, _, _, _)
WalkReturnsNode(h, cur, segs, i) ==
  IF i > Len(segs) THEN cur
  ELSE IF cur.k \in {"null", "undefined"} THEN cur
  ELSE WalkReturnsNode(h, GetProp(h, cur, segs[i]), segs, i + 1)

\* the loop of ValueExtractor.extract from segment i on
RECURSIVE Walk(_, _, _, _)
Walk(h, cur, segs, i) ==
  IF i > Len(segs) THEN cur
  ELSE IF cur.k \in {"null", "undefined"} THEN Undef
  ELSE Walk(h, GetProp(h, cur, segs[i]), segs, i + 1)

\* ValueExtractor.extract
extract(h, src, p) ==
  IF SFalsy(p) \/ p = SStr(<<"$">>) THEN [ok |-> TRUE, v |-> src, e |-> NoErr]
  ELSE LET pp == parsePath(p) IN
    IF ~pp.ok THEN [ok |-> FALSE, v |-> Undef, e |-> pp.e]
    ELSE [ok |-> TRUE, v |-> Walk(h, src, pp.segs, 1), e |-> NoErr]

\* ------------------------------------------------------------------ ValueSetter
IsDigits(key) == key \in {"0", "1"}

Join(segs) ==
  [i \in 1..(2 * Len(segs) - 1) |-> IF i % 2 = 1 THEN segs[(i + 1) \div 2] ELSE "."]

SetFail(h, m) == [ok |-> FALSE, h |-> h, e |-> Error(m)]

\* the traversal error naming the path before the offending segment only
CannotTraverseNoKey(segs, i) ==
  Error(<<"Cannot set property \"", segs[i + 1], "\" on non-object value at path \"">>
        \o Join(SubSeq(segs, 1, i - 1)) \o <<"\"">>)

\* the error for an intermediate segment i that holds a non-object value
CannotTraverse(segs, i) ==
  Error(<<"Cannot set property \"", segs[i + 1], "\" on non-object value at path \"">>
        \o Join(SubSeq(segs, 1, i)) \o <<"\"">>)

\* container creation deciding on the next segment alone
ContainerByNextKey(key, nextKey) ==
  IF IsDigits(nextKey) THEN "array"
  ELSE IF key = "items" THEN "error"
  ELSE "object"

\* what is created for an absent intermediate segment key followed by nextKey
Container(key, nextKey) ==
  IF key = "items"
    THEN (IF IsDigits(nextKey) THEN "array" ELSE "error")
  ELSE "object"

\* the loop of ValueSetter.set from segment i on, cur being an object address
RECURSIVE SetWalk(_, _, _, _, _)
SetWalk(h, cur, segs, i, value) ==
  LET key == segs[i]
      curKey == GetProp(h, Ref(cur), key)
  IN
  IF i = Len(segs)
    THEN IF Writable(h, cur, key)
           THEN [ok |-> TRUE, h |-> PutProp(h, cur, key, value), e |-> NoErr]
         ELSE [ok |-> FALSE, h |-> h, e |-> ReadOnlyError(key)]
  ELSE
    LET nextKey == segs[i + 1] IN
    IF curKey.k # "undefined" /\ (curKey.k = "null" \/ TypeOf(curKey) # "object")
      THEN [ok |-> FALSE, h |-> h, e |-> CannotTraverse(segs, i)]
    ELSE IF curKey.k = "undefined"
      THEN IF Container(key, nextKey) = "error"
             THEN SetFail(h, <<"Cannot set non-numeric property \"", nextKey,
                               "\" on non-existent array">>)
           ELSE IF ~Writable(h, cur, key)
             THEN [ok |-> FALSE, h |-> h, e |-> ReadOnlyError(key)]
           ELSE LET h1 == Alloc(h, Container(key, nextKey) = "array")
                IN SetWalk(PutProp(h1, cur, key, Ref(Len(h1))), Len(h1),
                           segs, i + 1, value)
    ELSE SetWalk(h, curKey.n, segs, i + 1, value)

\* the chaining helper attached at the end of ValueSetter.set
AttachSet(h, a) ==
  IF GetProp(h, Ref(a), "set").k = "function" THEN h
  ELSE IF HasOwn(h, a, "set")
    THEN [PutProp(h, a, "set", Fn(0)) EXCEPT ![a].hidden = @ \cup {"set"}]
  ELSE [PutProp(h, a, "set", Fn(0)) EXCEPT ![a].hidden = @ \cup {"set"},
                                           ![a].ro = @ \cup {"set"}]

\* the argument checks without the test for a blank path
CheckArgsNoTrim(h, target, p) ==
  IF target.k \in {"null", "undefined"}
    THEN Error(<<"Target object cannot be null or undefined">>)
  ELSE IF TypeOf(target) # "object" \/ IsArray(h, target)
    THEN Error(<<"Target must be an object">>)
  ELSE IF p.k # "string" \/ p.s = <<"$">> \/ p.s = <<".">>
    THEN Error(<<"Path must be a non-empty string for setting values">>)
  ELSE NoErr

\* the argument checks at the head of ValueSetter.set
CheckArgs(h, target, p) ==
  IF target.k \in {"null", "undefined"}
    THEN Error(<<"Target object cannot be null or undefined">>)
  ELSE IF TypeOf(target) # "object" \/ IsArray(h, target)
    THEN Error(<<"Target must be an object">>)
  ELSE IF p.k # "string" \/ (\A i \in 1..Len(p.s) : p.s[i] = " ")
          \/ p.s = <<"$">> \/ p.s = <<".">>
    THEN Error(<<"Path must be a non-empty string for setting values">>)
  ELSE NoErr

\* ValueSetter.set; target is a value, p a string descriptor
set(h, target, p, value) ==
  IF CheckArgs(h, target, p) # NoErr
    THEN [ok |-> FALSE, h |-> h, e |-> CheckArgs(h, target, p)]
  ELSE LET pp == parsePath(p) IN
    IF ~pp.ok THEN [ok |-> FALSE, h |-> h, e |-> pp.e]
    ELSE LET w == SetWalk(h, target.n, pp.segs, 1, value) IN
      IF ~w.ok THEN w
      ELSE [ok |-> TRUE, h |-> AttachSet(w.h, target.n), e |-> NoErr]

\* ------------------------------------------------------------------ validators
TypeTags == {"string", "number", "integer", "boolean", "array", "object", "null"}

\* the tags a caller uses: the built-in ones and a custom one
Tags == TypeTags \cup {"foo"}

\* ValidatorFactory.validatorClasses as set by the constructor
validatorClasses ==
  [t \in Tags |->
     CASE t = "string" -> "StringValidator"
       [] t \in {"number", "integer"} -> "NumberValidator"
       [] t = "boolean" -> "BooleanValidator"
       [] t = "array" -> "ArrayValidator"
       [] t = "object" -> "ObjectValidator"
       [] t = "null" -> "NullValidator"
       [] OTHER -> "none"]

\* a validator instance: its class and its identity (the how-manieth instance
\* this factory has constructed)
NoInstance == [cls |-> "none", id |-> 0]

\* the ValidatorFactory after its constructor: validatorClasses, the empty
\* validators cache, and no instance constructed yet
NoValidators ==
  [classes |-> validatorClasses, validators |-> [t \in Tags |-> NoInstance],
   made |-> 0]

\* the constraint fields of a rule or of an items schema that the number and
\* array validators read: undefined (Absent) or a value; items is <<>> when
\* absent and <<schema>> otherwise, a schema being [type, cons]
NoCons ==
  [minimum |-> Absent, maximum |-> Absent, multipleOf |-> Absent,
   minItems |-> Absent, maxItems |-> Absent, uniqueItems |-> FALSE,
   items |-> <<>>]

Schema(type, cons) == [type |-> type, cons |-> cons]

Expected(exp, h, v) == Error(<<"Expected type ", exp, " but got ", TypeName(h, v)>>)

Abs(x) == IF x < 0 THEN -x ELSE x

\* Math.round(v / m) for integers v and m # 0: the nearest integer, a tie
\* going up
Round(v, m) ==
  LET num == IF m < 0 THEN -v ELSE v
      den == Abs(m)
  IN (2 * num + den) \div (2 * den)

\* Math.abs(ratio - Math.round(ratio)) > 1e-12 for ratio = v / m: the distance
\* is |v - q * m| / |m| with q the rounded ratio, which for integers of
\* magnitude below 10^12 is above the tolerance exactly when it is not 0
OffMultiple(v, m) == Abs(v - Round(v, m) * m) # 0

\* the multipleOf block of NumberValidator.validate without the test of m
MultipleOfCheckNoGuard(v, m) ==
  IF m.k # "number" THEN NoErr
  ELSE IF m.n # 0 /\ OffMultiple(v.n, m.n)
    THEN Error(<<"Number ", ToString(v.n), " is not a multiple of ", ToString(m.n)>>)
  ELSE NoErr

\* the multipleOf block of NumberValidator.validate; v is a number
MultipleOfCheck(v, m) ==
  IF m.k = "absent" THEN NoErr
  ELSE IF m.k # "number" \/ m.n = 0
    THEN Error(<<"multipleOf must be a non-zero number">>)
  ELSE IF OffMultiple(v.n, m.n)
    THEN Error(<<"Number ", ToString(v.n), " is not a multiple of ", ToString(m.n)>>)
  ELSE NoErr

GreaterThanMaximum(v, max) ==
  Error(<<"Number ", ToString(v.n), " is greater than maximum ", ToString(max.n)>>)

\* the maximum block comparing the values themselves whatever the sign
MaximumCheckPlain(v, max) ==
  IF max.k = "absent" THEN NoErr
  ELSE IF v.n > max.n THEN GreaterThanMaximum(v, max)
  ELSE NoErr

\* the maximum block of NumberValidator.validate; v and max are numbers
MaximumCheck(v, max) ==
  IF max.k = "absent" THEN NoErr
  ELSE IF max.n < 0
    THEN (IF Abs(v.n) > Abs(max.n) THEN GreaterThanMaximum(v, max) ELSE NoErr)
  ELSE IF v.n > max.n THEN GreaterThanMaximum(v, max)
  ELSE NoErr

\* the minimum block of NumberValidator.validate; v and min are numbers
MinimumCheck(v, min) ==
  IF min.k = "absent" THEN NoErr
  ELSE IF v.n < min.n
    THEN Error(<<"Number ", ToString(v.n), " is less than minimum ", ToString(min.n)>>)
  ELSE NoErr

\* NumberValidator.validate for the values of the model (no NaN, no infinity,
\* no fraction) and the constraint fields of NoCons
NumberValidate(h, v, b) ==
  IF TypeOf(v) # "number"
    THEN Expected(IF SFalsy(b.type) THEN "number" ELSE b.type.s[1], h, v)
  ELSE IF MultipleOfCheck(v, b.cons.multipleOf) # NoErr
    THEN MultipleOfCheck(v, b.cons.multipleOf)
  ELSE IF MinimumCheck(v, b.cons.minimum) # NoErr
    THEN MinimumCheck(v, b.cons.minimum)
  ELSE MaximumCheck(v, b.cons.maximum)

\* ---- JSON.stringify
\* the text as a sequence of value records: a primitive is itself, the
\* punctuation and the property names are records of their own
KeyIndex(key) == CHOOSE i \in 1..Len(KeySeq) : KeySeq[i] = key
Punct(c) ==
  [k |-> "punct",
   n |-> CHOOSE i \in 1..5 : <<"[", "]", "{", "}", ",">>[i] = c]
KeyText(key) == [k |-> "key", n |-> KeyIndex(key)]

\* Object.keys order: the integer keys ascending, then the others in the
\* order of their creation; non-enumerable properties are left out
EnumKeys(o) ==
  SelectSeq(<<"0", "1">>, LAMBDA key : o.f[key].k # "absent" /\ key \notin o.hidden)
  \o SelectSeq(o.ord, LAMBDA key : key \notin {"0", "1"} /\ key \notin o.hidden)

RECURSIVE JSONstringify(_, _, _), Elements(_, _, _, _), Members(_, _, _, _, _)
\* JSON.stringify(v), <<Undef>> standing for the result undefined; d bounds
\* the nesting
JSONstringify(h, v, d) ==
  IF v.k \in {"undefined", "function", "absent"} THEN <<Undef>>
  ELSE IF v.k # "ref" THEN <<v>>
  ELSE IF d = 0 THEN <<Punct("{"), Punct("}")>>
  ELSE IF h[v.n].arr
    THEN <<Punct("[")>> \o Elements(h, v, 1, d) \o <<Punct("]")>>
  ELSE <<Punct("{")>> \o Members(h, v, EnumKeys(h[v.n]), 1, d) \o <<Punct("}")>>

Elements(h, v, i, d) ==
  IF i > Length(h, v) THEN <<>>
  ELSE LET t == JSONstringify(h, GetProp(h, v, IF i = 1 THEN "0" ELSE "1"), d - 1)
       IN <<Punct(",")>> \o (IF t = <<Undef>> THEN <<Null>> ELSE t)
          \o Elements(h, v, i + 1, d)

Members(h, v, keys, i, d) ==
  IF i > Len(keys) THEN <<>>
  ELSE LET t == JSONstringify(h, GetProp(h, v, keys[i]), d - 1)
       IN (IF t = <<Undef>> THEN <<>> ELSE <<Punct(","), KeyText(keys[i])>> \o t)
          \o Members(h, v, keys, i + 1, d)

\* ---- ValidatorFactory
ValidatorResult(ok, fac, inst, created, e) ==
  [ok |-> ok, cache |-> fac, cls |-> inst.cls, id |-> inst.id,
   created |-> created, e |-> e]

\* getValidator constructing an instance at every call
getValidatorNoCache(fac, type) ==
  IF type \notin Tags \/ fac.classes[type] = "none"
    THEN ValidatorResult(FALSE, fac, NoInstance, FALSE,
                         Error(<<"Unknown type: ", type>>))
  ELSE LET inst == [cls |-> fac.classes[type], id |-> fac.made + 1] IN
    ValidatorResult(TRUE,
                    [fac EXCEPT !.validators[type] = inst, !.made = @ + 1],
                    inst, TRUE, NoErr)

\* ValidatorFactory.getValidator: the factory after the call (cache), the
\* instance returned, and whether the call constructed it
getValidator(fac, type) ==
  IF type \in Tags /\ fac.validators[type] # NoInstance
    THEN ValidatorResult(TRUE, fac, fac.validators[type], FALSE, NoErr)
  ELSE IF type \notin Tags \/ fac.classes[type] = "none"
    THEN ValidatorResult(FALSE, fac, NoInstance, FALSE,
                         Error(<<"Unknown type: ", type>>))
  ELSE LET inst == [cls |-> fac.classes[type], id |-> fac.made + 1] IN
    ValidatorResult(TRUE,
                    [fac EXCEPT !.validators[type] = inst, !.made = @ + 1],
                    inst, TRUE, NoErr)

\* registerValidator leaving the cached instance in place
registerValidatorKeepCache(fac, type, Cls) ==
  [fac EXCEPT !.classes[type] = Cls]

\* ValidatorFactory.registerValidator
registerValidator(fac, type, Cls) ==
  [fac EXCEPT !.classes[type] = Cls, !.validators[type] = NoInstance]

\* ValidatorFactory.unregisterValidator
unregisterValidator(fac, type) ==
  [fac EXCEPT !.classes[type] = "none", !.validators[type] = NoInstance]

\* ---- the validate methods
\* value[i - 1] of an array
Item(h, v, i) == GetProp(h, v, IF i = 1 THEN "0" ELSE "1")

\* new Set(value.map(v => JSON.stringify(v))).size !== value.length
NotUnique(h, v) ==
  Cardinality({JSONstringify(h, Item(h, v, i), Depth) : i \in 1..Length(h, v)})
    # Length(h, v)

Validated(e, fac) == [e |-> e, cache |-> fac]

RECURSIVE validate(_, _, _, _, _), ValidateItems(_, _, _, _, _)
\* validate(value, rule) of an instance of class cls; b is the rule (or
\* items schema) and fac the factory, which an ArrayValidator asks for the
\* validators of its items: the error thrown (NoErr for none) and the
\* factory afterwards
validate(cls, fac, h, v, b) ==
  CASE cls = "StringValidator" ->
         Validated(IF TypeName(h, v) # "string" THEN Expected("string", h, v)
                   ELSE NoErr, fac)
    [] cls = "NumberValidator" -> Validated(NumberValidate(h, v, b), fac)
    [] cls = "BooleanValidator" ->
         Validated(IF TypeOf(v) # "boolean" THEN Expected("boolean", h, v)
                   ELSE NoErr, fac)
    [] cls = "ArrayValidator" ->
         IF ~IsArray(h, v) THEN Validated(Expected("array", h, v), fac)
         ELSE IF b.cons.minItems # Absent /\ Length(h, v) < b.cons.minItems.n
           THEN Validated(Error(<<"Array length ", ToString(Length(h, v)),
                                  " is less than minimum ",
                                  ToString(b.cons.minItems.n)>>), fac)
         ELSE IF b.cons.maxItems # Absent /\ Length(h, v) > b.cons.maxItems.n
           THEN Validated(Error(<<"Array length ", ToString(Length(h, v)),
                                  " exceeds maximum ",
                                  ToString(b.cons.maxItems.n)>>), fac)
         ELSE IF b.cons.uniqueItems /\ NotUnique(h, v)
           THEN Validated(Error(<<"Array items are not unique">>), fac)
         ELSE IF Len(b.cons.items) = 0 THEN Validated(NoErr, fac)
         ELSE ValidateItems(fac, h, v, b.cons.items[1], 1)
    [] cls = "ObjectValidator" ->
         Validated(IF TypeName(h, v) # "object" THEN Expected("object", h, v)
                   ELSE NoErr, fac)
    [] cls = "NullValidator" ->
         Validated(IF v.k # "null" THEN Expected("null", h, v) ELSE NoErr, fac)
    [] OTHER -> Validated(NoErr, fac)

\* for (const item of value) if (itemRule.type) getValidator(...).validate(...)
ValidateItems(fac, h, v, itemRule, i) ==
  IF i > Length(h, v) \/ SFalsy(itemRule.type) THEN Validated(NoErr, fac)
  ELSE LET g == getValidator(fac, itemRule.type.s[1]) IN
    IF ~g.ok THEN Validated(g.e, fac)
    ELSE LET r == validate(g.cls, g.cache, h, Item(h, v, i), itemRule) IN
      IF r.e # NoErr THEN r
      ELSE ValidateItems(r.cache, h, v, itemRule, i + 1)

\* ------------------------------------------------------------------ rules
NoSources == [k |-> "absent", e |-> <<>>]
Sources(entries) == [k |-> "object", e |-> entries]
SourcesArray(entries) == [k |-> "array", e |-> entries]
Entry(key, path) == [key |-> key, path |-> path]

NoTransform == [k |-> "absent", f |-> "none"]
Transform(f) == [k |-> "function", f |-> f]
NoDefault == [k |-> "absent", v |-> Undef, throws |-> FALSE]
Default(v) == [k |-> "value", v |-> v, throws |-> FALSE]
Producer(v) == [k |-> "producer", v |-> v, throws |-> FALSE]
ThrowingProducer == [k |-> "producer", v |-> Undef, throws |-> TRUE]

\* rule.transform is falsy: absent, null or 0
TFalsy(t) == t.k \in {"absent", "null", "zero"}

Rule(srcs, tgt, type, tf, dflt, req) ==
  [isObj |-> TRUE, sources |-> srcs, source |-> SNone, target |-> tgt,
   type |-> type, transform |-> tf, default |-> dflt, required |-> req,
   index |-> -1, cons |-> NoCons]

\* a list element that is null
NullRule == [Rule(NoSources, SNone, SNone, NoTransform, NoDefault, FALSE)
               EXCEPT !.isObj = FALSE]

IdxTok(i) == <<"0", "1", "2", "3", "4", "5", "6", "7", "8", "9">>[i + 1]

\* Object.keys(rule.sources).length
NumKeys(srcs) == Cardinality({srcs.e[j].key : j \in 1..Len(srcs.e)})

\* ------------------------------------------------------------------ DataAdaptor (validating engine)
CtorFail(e) == [ok |-> FALSE, mapping |-> <<>>, e |-> e]

ConfigMsg(i, field, text) ==
  Error(<<"Rule at index ", IdxTok(i - 1), ": \"", field, "\"">> \o text)

\* JSON.stringify(rule.sources) for the shapes that are rejected
Stringify(srcs) ==
  CASE srcs.k = "absent" -> "undefined"
    [] srcs.k = "null" -> "null"
    [] srcs.k = "array" -> "[...]"
    [] OTHER -> "\"...\""

\* one iteration of the loop of _validateConfiguration
ValidateRule(rule, i) ==
  IF ~rule.isObj
    THEN TypeError(<<"Cannot read properties of null (reading 'sources')">>)
  ELSE IF rule.sources.k # "object"
    THEN ConfigMsg(i, "sources", <<" must be an object. ", "Found: ",
                                   Stringify(rule.sources)>>)
  ELSE IF NumKeys(rule.sources) = 0
    THEN ConfigMsg(i, "sources", <<" cannot be empty">>)
  ELSE IF SFalsy(rule.target) \/ rule.target.k # "string"
    THEN ConfigMsg(i, "target", <<" must be a non-empty string">>)
  ELSE IF SFalsy(rule.type) \/ rule.type.k # "string"
    THEN ConfigMsg(i, "type", <<" must be a non-empty string">>)
  ELSE IF ~TFalsy(rule.transform) /\ rule.transform.k # "function"
    THEN ConfigMsg(i, "transform", <<" must be a function with ",
                                     "signature (input, { source }) => value">>)
  ELSE NoErr

RECURSIVE ValidateFrom(_, _)
_validateConfiguration(rules) == ValidateFrom(rules, 1)
ValidateFrom(rules, i) ==
  IF i > Len(rules) THEN NoErr
  ELSE LET e == ValidateRule(rules[i], i) IN
    IF e # NoErr THEN e ELSE ValidateFrom(rules, i + 1)

\* mappingConfig.map((r, idx) => ({ ...r, __index: idx }))
CopyRules(rules) ==
  [i \in 1..Len(rules) |-> [rules[i] EXCEPT !.isObj = TRUE, !.index = i - 1]]

Constructor(cfg) ==
  IF ~cfg.isArray THEN CtorFail(Error(<<"Mapping config must be an array">>))
  ELSE LET e == _validateConfiguration(cfg.rules) IN
    IF e # NoErr THEN CtorFail(e)
    ELSE [ok |-> TRUE, mapping |-> CopyRules(cfg.rules), e |-> NoErr]

\* ------------------------------------------------------------------ src/data-adaptor.js
ConstructorLegacy(cfg) ==
  IF ~cfg.isArray THEN CtorFail(Error(<<"Mapping config must be an array">>))
  ELSE [ok |-> TRUE, mapping |-> CopyRules(cfg.rules), e |-> NoErr]

\* ------------------------------------------------------------------ transform functions
\* The caller-supplied, side-effect-free functions (input, { source }) => value
\* of the rule sets; input is the value built from the rule's sources.
CallFn(f, h, input, src) ==
  CASE f = "retUndef" -> [ok |-> TRUE, v |-> Undef, e |-> NoErr]
    [] f = "retNull" -> [ok |-> TRUE, v |-> Null, e |-> NoErr]
    [] f = "retJohn" -> [ok |-> TRUE, v |-> S("John"), e |-> NoErr]
    [] f = "pickX" ->
         IF input.k \in {"null", "undefined"}
           THEN [ok |-> FALSE, v |-> Undef,
                 e |-> TypeError(<<"Cannot read properties of undefined (reading 'x')">>)]
         ELSE [ok |-> TRUE, v |-> GetProp(h, input, "x"), e |-> NoErr]
    [] f = "throwError" -> [ok |-> FALSE, v |-> Undef, e |-> Error(<<"boom">>)]
    [] f = "throwString" -> [ok |-> FALSE, v |-> Undef, e |-> ThrownString(<<"boom">>)]
    [] f = "throwNull" -> [ok |-> FALSE, v |-> Undef, e |-> ThrownNull]
    [] OTHER -> [ok |-> FALSE, v |-> Undef, e |-> ThrownUndef]

\* ------------------------------------------------------------------ per-rule pipeline
\* The state threaded through the body of the try block of transform:
\* h heap, cache validator cache, ok/e whether a stage threw and what,
\* v the current value, stage how far the rule got.
Ctx(h, cache) ==
  [h |-> h, cache |-> cache, ok |-> TRUE, e |-> NoErr, v |-> Undef,
   input |-> Undef, stepV |-> Absent, wrote |-> FALSE, stage |-> "start"]

Throw(c, e) == [c EXCEPT !.ok = FALSE, !.e = e]

\* for (const [key, path] of Object.entries(rule.sources)) input[key] = extract(...)
RECURSIVE FillInput(_, _, _, _, _)
FillInput(c, src, entries, j, a) ==
  IF j > Len(entries) THEN c
  ELSE LET x == extract(c.h, src, entries[j].path) IN
    IF ~x.ok THEN Throw(c, x.e)
    ELSE FillInput([c EXCEPT !.h = PutProp(c.h, a, entries[j].key, x.v)],
                   src, entries, j + 1, a)

NamedInput(c, src, rule) ==
  LET h1 == Alloc(c.h, FALSE)
      a == Len(h1)
  IN FillInput([c EXCEPT !.h = h1, !.input = Ref(a)], src, rule.sources.e, 1, a)

\* DataAdaptor._buildTransformInput of the validating engine
_buildTransformInput(c, src, rule) ==
  IF rule.sources.k # "object"
    THEN Throw(c, Error(<<"Rule at target \"">> \o rule.target.s
                        \o <<"\": \"sources\" must be an object. ",
                             "Example: { sources: { fieldName: 'path.to.source' } }">>))
  ELSE NamedInput(c, src, rule)

\* DataAdaptor._buildTransformInput of src/data-adaptor.js
\* (array sources of the rule sets have one element)
BuildInputLegacy(c, src, rule) ==
  IF rule.sources.k = "array"
    THEN LET h1 == Alloc(c.h, TRUE)
             a == Len(h1)
             c1 == [c EXCEPT !.h = h1, !.input = Ref(a)]
         IN IF Len(rule.sources.e) = 0 THEN c1
            ELSE LET x == extract(h1, src, rule.sources.e[1].path) IN
              IF ~x.ok THEN Throw(c1, x.e)
              ELSE [c1 EXCEPT !.h = PutProp(h1, a, "0", x.v)]
  ELSE IF rule.sources.k = "object" THEN NamedInput(c, src, rule)
  ELSE IF rule.source.k = "string"
    THEN LET x == extract(c.h, src, rule.source) IN
      IF ~x.ok THEN Throw(c, x.e) ELSE [c EXCEPT !.input = x.v]
  ELSE [c EXCEPT !.input = Undef]

RequiredError(rule) ==
  Error(<<"Field \"">>
        \o (IF SFalsy(rule.target) THEN <<"<unknown>">> ELSE rule.target.s)
        \o <<"\" is required">>)

\* step 2 of the validating engine: transform or direct mapping
StepValue(c, src, rule) ==
  IF ~c.ok THEN c
  ELSE IF rule.transform.k = "function"
    THEN LET r == CallFn(rule.transform.f, c.h, c.input, src) IN
      IF ~r.ok THEN Throw(c, r.e)
      ELSE [c EXCEPT !.v = r.v, !.stepV = r.v, !.stage = "value"]
  ELSE IF NumKeys(rule.sources) > 1
    THEN Throw(c, Error(<<"Direct mapping requires exactly one source field">>))
  ELSE LET v == GetProp(c.h, c.input, rule.sources.e[1].key) IN
    [c EXCEPT !.v = v, !.stepV = v, !.stage = "value"]

\* step 2 of src/data-adaptor.js: the passthrough value is the input itself
StepValueLegacy(c, src, rule) ==
  IF ~c.ok THEN c
  ELSE IF rule.transform.k = "function"
    THEN LET r == CallFn(rule.transform.f, c.h, c.input, src) IN
      IF ~r.ok THEN Throw(c, r.e)
      ELSE [c EXCEPT !.v = r.v, !.stepV = r.v, !.stage = "value"]
  ELSE [c EXCEPT !.v = c.input, !.stepV = c.input, !.stage = "value"]

\* the required check of the validating engine, made on the step's value
RequiredCheck(c, rule) ==
  IF ~c.ok THEN c
  ELSE IF rule.required /\ c.v.k \in {"undefined", "null"}
    THEN Throw(c, RequiredError(rule))
  ELSE [c EXCEPT !.stage = "required"]

\* the required check of src/data-adaptor.js, made on the input
RequiredCheckLegacy(c, rule) ==
  IF ~c.ok THEN c
  ELSE IF rule.required /\ c.input.k \in {"undefined", "null"}
    THEN Throw(c, RequiredError(rule))
  ELSE c

\* DataAdaptor._applyDefaultIfNeeded
_applyDefaultIfNeeded(c, rule) ==
  IF ~c.ok THEN c
  ELSE IF c.v.k \in {"undefined", "null"} /\ rule.default.k # "absent"
    THEN IF rule.default.k = "producer" /\ rule.default.throws
           THEN Throw(c, Error(<<"default failed">>))
         ELSE [c EXCEPT !.v = rule.default.v, !.stage = "default"]
  ELSE [c EXCEPT !.stage = "default"]

\* _validateIfNeeded handed the value of the transform step, before the default
_validateStepValue(c, rule) ==
  IF ~c.ok THEN c
  ELSE IF SFalsy(rule.type) THEN [c EXCEPT !.stage = "validated"]
  ELSE LET g == getValidator(c.cache, rule.type.s[1]) IN
    IF ~g.ok THEN Throw(c, g.e)
    ELSE LET r == validate(g.cls, g.cache, c.h, c.stepV, rule)
             c1 == [c EXCEPT !.cache = r.cache]
         IN IF r.e # NoErr THEN Throw(c1, r.e) ELSE [c1 EXCEPT !.stage = "validated"]

\* DataAdaptor._validateIfNeeded
_validateIfNeeded(c, rule) ==
  IF ~c.ok THEN c
  ELSE IF SFalsy(rule.type) THEN [c EXCEPT !.stage = "validated"]
  ELSE LET g == getValidator(c.cache, rule.type.s[1]) IN
    IF ~g.ok THEN Throw(c, g.e)
    ELSE LET r == validate(g.cls, g.cache, c.h, c.v, rule)
             c1 == [c EXCEPT !.cache = r.cache]
         IN IF r.e # NoErr THEN Throw(c1, r.e) ELSE [c1 EXCEPT !.stage = "validated"]

\* if (value !== undefined) this.setter.set(output, rule.target, value)
WriteValue(c, o, rule) ==
  IF ~c.ok THEN c
  ELSE IF c.v.k = "undefined" THEN [c EXCEPT !.stage = "done"]
  ELSE LET w == set(c.h, Ref(o), rule.target, c.v) IN
    IF ~w.ok THEN Throw([c EXCEPT !.h = w.h], w.e)
    ELSE [c EXCEPT !.h = w.h, !.wrote = TRUE, !.stage = "done"]

\* the body of the try block, validating engine
TryRule(h, cache, src, o, rule) ==
  WriteValue(
    _validateIfNeeded(
      _applyDefaultIfNeeded(
        RequiredCheck(
          StepValue(_buildTransformInput(Ctx(h, cache), src, rule), src, rule),
          rule),
        rule),
      rule),
    o, rule)

\* the body of the try block, src/data-adaptor.js
TryRuleLegacy(h, cache, src, o, rule) ==
  WriteValue(
    _validateIfNeeded(
      _applyDefaultIfNeeded(
        StepValueLegacy(
          RequiredCheckLegacy(BuildInputLegacy(Ctx(h, cache), src, rule), rule),
          src, rule),
        rule),
      rule),
    o, rule)

\* the catch block: what transform throws for the value e thrown inside try
Wrap(rule, e) ==
  IF e.k \in {"null", "undefined"}
    THEN TypeError(<<"Cannot read properties of ", e.k, " (reading 'message')">>)
  ELSE Error(<<"Transformation failed at field \"">>
             \o (IF SFalsy(rule.target) THEN <<"<unknown>">> ELSE rule.target.s)
             \o <<"\": ">>
             \o (IF e.k = "string" THEN <<"undefined">> ELSE e.m))

\* ------------------------------------------------------------------ inputs
\* the source record { a: <aVal>, obj: {} }: address 1 is the record, 2 is obj;
\* address 3 is the object literal {} that a rule of the caller has as default
SourceHeap(aVal) ==
  <<ObjectLiteral(<<Prop("a", aVal), Prop("obj", Ref(2))>>), NewObj(FALSE),
    NewObj(FALSE)>>

DefaultObject == Ref(3)

SourceValues == {Absent, Null, S(""), Num(0), Bool(FALSE), S("John")}

pA == SStr(<<"a">>)
pObj == SStr(<<"obj">>)
pRoot == SStr(<<"$">>)
pBad == SStr(<<"a", ".", ".", "k">>)
tT == SStr(<<"t">>)
tTK == SStr(<<"t", ".", "k">>)
tTAK == SStr(<<"t", ".", "a", ".", "k">>)
tSet == SStr(<<"set">>)
tItemsAbc == SStr(<<"items", ".", "abc">>)
tyString == SStr(<<"string">>)
tyObject == SStr(<<"object">>)

OneSource(p) == Sources(<<Entry("x", p)>>)
Pass(p, tgt, type, dflt, req) == Rule(OneSource(p), tgt, type, NoTransform, dflt, req)
Apply(f, dflt, req) == Rule(OneSource(pA), tT, tyString, Transform(f), dflt, req)

\* well-formed rules exercising every stage of the pipeline
PipelineRules ==
  {Pass(pA, tT, tyString, d, r) : d \in {NoDefault, Default(S("d"))}, r \in BOOLEAN}
  \cup {Pass(pA, tT, SStr(<<"number">>), Default(Num(9)), FALSE),
        Pass(pA, tT, SStr(<<"boolean">>), Default(Bool(TRUE)), FALSE),
        Pass(pA, tT, tyString, Producer(S("d")), FALSE),
        Pass(pA, tT, tyString, ThrowingProducer, FALSE),
        Pass(pA, tTK, tyString, NoDefault, FALSE),
        Pass(pA, tTAK, tyString, Default(S("d")), FALSE),
        Pass(pA, tT, tyObject, Default(DefaultObject), FALSE),
        Pass(pA, tSet, tyString, NoDefault, FALSE),
        Pass(pA, tItemsAbc, tyString, NoDefault, FALSE),
        Pass(pA, tT, SStr(<<"foo">>), NoDefault, FALSE),
        Pass(pA, tT, SStr(<<"number">>), Default(S("d")), FALSE),
        [Pass(pA, tT, SStr(<<"number">>), Default(Num(9)), FALSE)
           EXCEPT !.cons.minimum = Num(10)],
        Pass(pBad, tT, tyString, NoDefault, FALSE),
        Pass(pObj, tT, tyObject, NoDefault, FALSE),
        Pass(pRoot, tT, tyObject, NoDefault, FALSE),
        Rule(Sources(<<Entry("x", pA), Entry("y", pObj)>>), tT, tyObject,
             NoTransform, NoDefault, FALSE)}
  \cup {Apply(f, NoDefault, TRUE) :
          f \in {"throwError", "throwString", "throwNull", "throwUndef", "retNull"}}
  \cup {Apply("retUndef", NoDefault, FALSE), Apply("retUndef", Default(S("d")), TRUE),
        Apply("pickX", NoDefault, FALSE)}

GoodRule == Pass(pA, tT, tyString, NoDefault, FALSE)

\* rules of every shape the constructor tells apart
ShapeRules ==
  {GoodRule, NullRule, Apply("retJohn", NoDefault, FALSE)}
  \cup {[GoodRule EXCEPT !.sources = x] :
          x \in {NoSources, Sources(<<>>), SourcesArray(<<Entry("0", pA)>>),
                 [k |-> "string", e |-> <<>>], [k |-> "null", e |-> <<>>]}}
  \cup {[GoodRule EXCEPT !.target = x] : x \in {SNone, SStr(<<>>), SNum}}
  \cup {[GoodRule EXCEPT !.type = x] : x \in {SNone, SStr(<<>>), SNum}}
  \cup {[GoodRule EXCEPT !.transform = x] :
          x \in {[k |-> "string", f |-> "none"], [k |-> "null", f |-> "none"],
                 [k |-> "zero", f |-> "none"]}}

\* rules for src/data-adaptor.js: named, array and legacy single selectors
LegacySource(p, type, tf, dflt, req) ==
  [Rule(NoSources, tT, type, tf, dflt, req) EXCEPT !.source = p]

LegacyRules ==
  {Pass(pA, tT, ty, NoDefault, r) : ty \in {tyString, tyObject, SNone}, r \in BOOLEAN}
  \cup {LegacySource(pA, tyString, NoTransform, d, r) :
          d \in {NoDefault, Default(S("d"))}, r \in BOOLEAN}
  \cup {LegacySource(pA, ty, Transform("retUndef"), NoDefault, TRUE) :
          ty \in {tyString, SNone}}
  \cup {Rule(Sources(<<Entry("x", pA), Entry("y", pObj)>>), tT, ty,
             NoTransform, NoDefault, FALSE) : ty \in {tyObject, SNone}}
  \cup {Apply("pickX", NoDefault, TRUE), Apply("throwError", NoDefault, FALSE),
        Rule(SourcesArray(<<Entry("0", pA)>>), tT, SStr(<<"array">>),
             NoTransform, NoDefault, FALSE),
        Rule(NoSources, SNone, SNone, NoTransform, NoDefault, TRUE),
        NullRule}

\* the lists of at most MaxRules rules of a rule set, and a non-array config
RECURSIVE Lists(_, _)
Lists(R, n) ==
  IF n = 0 THEN {<<>>}
  ELSE LET shorter == Lists(R, n - 1) IN
    shorter \cup {Append(l, r) : l \in {x \in shorter : Len(x) = n - 1}, r \in R}

Configs(R) ==
  {[isArray |-> TRUE, rules |-> l] : l \in Lists(R, MaxRules)}
  \cup {[isArray |-> FALSE, rules |-> <<>>]}

\* ------------------------------------------------------------------ state machine
NoEv == [i |-> 0, ok |-> TRUE, e |-> NoErr, v |-> Undef, input |-> Undef,
         stepV |-> Absent, wrote |-> FALSE, stage |-> "start"]

EvOf(c, i) == [i |-> i, ok |-> c.ok, e |-> c.e, v |-> c.v, input |-> c.input,
               stepV |-> c.stepV, wrote |-> c.wrote, stage |-> c.stage]

\* how the previous transform call on this engine ended (none yet: pc "new")
NoPrev == [pc |-> "new", result |-> Undef, err |-> NoErr]

\* the last direct call of a helper (PathUtils, ValueExtractor, ValueSetter)
NoCall == [op |-> "none", target |-> Undef, path |-> SNone, value |-> Undef,
           ok |-> TRUE, e |-> NoErr, v |-> Undef, segs |-> <<>>]

\* the last direct call on a ValidatorFactory: the factory before the call,
\* the tag and class passed, the instance got, and for a validate call the
\* value, the constraint bag and the error thrown
NoVCall ==
  [op |-> "none", before |-> NoValidators, tag |-> "", cls |-> "none",
   inst |-> NoInstance, created |-> FALSE, ok |-> TRUE, e |-> NoErr,
   value |-> Undef, bag |-> Schema(SNone, NoCons)]

InitWith(im, R, A) ==
  /\ impl = im
  /\ config \in Configs(R)
  /\ \E a \in A : heap = SourceHeap(a)
  /\ source = Ref(1)
  /\ mapping = <<>>
  /\ validators = NoValidators
  /\ pc = "new"
  /\ idx = 0
  /\ out = 0
  /\ err = NoErr
  /\ result = Undef
  /\ ev = NoEv
  /\ heap0 = heap
  /\ calls = 0
  /\ prev = NoPrev
  /\ call = NoCall
  /\ vcall = NoVCall
  /\ written = <<>>

Init == InitWith("engine", PipelineRules, SourceValues)
InitConfig == InitWith("engine", ShapeRules, {S("John")})
InitLegacy == InitWith("legacy", LegacyRules, {Absent, Null, S("John")})

\* new DataAdaptor(config)
Construct ==
  /\ pc = "new"
  /\ LET r == IF impl = "engine" THEN Constructor(config)
              ELSE ConstructorLegacy(config)
     IN /\ pc' = IF r.ok THEN "ready" ELSE "ctorThrew"
        /\ mapping' = r.mapping
        /\ err' = r.e
  /\ UNCHANGED <<impl, config, source, heap, validators, idx, out, result, ev,
                 heap0, calls, prev, call,
                 vcall, written>>

\* transform(source) up to the loop: const output = {}
TransformBegin ==
  /\ pc \in {"ready", "returned", "threw"}
  /\ calls < MaxCalls
  /\ heap' = Alloc(heap, FALSE)
  /\ out' = Len(heap) + 1
  /\ heap0' = heap
  /\ idx' = 1
  /\ pc' = "running"
  /\ calls' = calls + 1
  /\ err' = NoErr
  /\ result' = Undef
  /\ ev' = NoEv
  /\ prev' = [pc |-> pc, result |-> result, err |-> err]
  /\ written' = <<>>
  /\ UNCHANGED <<impl, config, source, mapping, validators, call, vcall>>

\* a catch block that records the failure and goes on with the next rule
RuleFailedContinue(rule, e) ==
  /\ idx' = idx + 1
  /\ err' = Wrap(rule, e)
  /\ UNCHANGED pc

\* the catch block: transform throws, the loop is left
RuleFailed(rule, e) ==
  /\ pc' = "threw"
  /\ err' = Wrap(rule, e)
  /\ UNCHANGED idx

\* one iteration of the loop over this.mapping: try { ... } catch { wrap }
ApplyRule ==
  /\ pc = "running"
  /\ idx <= Len(mapping)
  /\ LET rule == mapping[idx]
         c == IF impl = "engine"
                THEN TryRule(heap, validators, source, out, rule)
              ELSE TryRuleLegacy(heap, validators, source, out, rule)
     IN /\ heap' = c.h
        /\ validators' = c.cache
        /\ ev' = EvOf(c, idx)
        /\ written' = IF c.ok /\ c.wrote
                         THEN Append(written, [target |-> rule.target, v |-> c.v])
                       ELSE written
        /\ IF c.ok
             THEN /\ idx' = idx + 1
                  /\ UNCHANGED <<pc, err>>
           ELSE RuleFailed(rule, c.e)
  /\ UNCHANGED <<impl, config, source, mapping, out, result, heap0, calls, prev,
                 call, vcall>>

\* return output
TransformReturn ==
  /\ pc = "running"
  /\ idx > Len(mapping)
  /\ pc' = "returned"
  /\ result' = Ref(out)
  /\ UNCHANGED <<impl, config, source, heap, mapping, validators, idx, out, err,
                 ev, heap0, calls, prev, call, vcall, written>>

Next == Construct \/ TransformBegin \/ ApplyRule \/ TransformReturn

Spec == Init /\ [][Next]_vars
SpecConfig == InitConfig /\ [][Next]_vars
SpecLegacy == InitLegacy /\ [][Next]_vars

\* ------------------------------------------------------------------ helpers called directly
\* PathUtils, ValueExtractor and ValueSetter are exported classes; a caller
\* makes one call of parsePath, extract or set on an object graph of its own.

\* the caller's objects: address 1 is { a: <aVal>, obj: {} } (with items: []
\* when withItems, and already carrying the chaining helper of an earlier set
\* call when chained), 2 and 3 are {}, 4 is []
HelperHeap(aVal, withItems, chained) ==
  LET h0 == Append(SourceHeap(aVal), NewObj(TRUE))
      h1 == IF withItems THEN PutProp(h0, 1, "items", Ref(4)) ELSE h0
  IN IF chained THEN AttachSet(h1, 1) ELSE h1

\* { a: 'John', obj: {}, items: [{ k: 'John' }] }: the element is address 5
ItemsHeap ==
  PutProp(Append(HelperHeap(S("John"), TRUE, FALSE),
                 ObjectLiteral(<<Prop("k", S("John"))>>)),
          4, "0", Ref(5))

HelperHeaps ==
  {HelperHeap(a, i, c) : a \in SourceValues, i \in BOOLEAN, c \in BOOLEAN}
  \cup {ItemsHeap}

\* a selector in bracket notation and the same selector in dot notation
pItems0K == SStr(<<"items[0]", ".", "k">>)
pItemsDot0K == SStr(<<"items", ".", "0", ".", "k">>)

PathTokens == {".", "a", "obj", "items", "0", "abc", "set", "k"}

\* the token sequences of at most n tokens that spell a string (no two
\* neighbouring tokens are both segment texts)
RECURSIVE TokenSeqs(_)
TokenSeqs(n) ==
  IF n = 0 THEN {<<>>}
  ELSE LET shorter == TokenSeqs(n - 1) IN
    shorter \cup {q \in {Append(l, t) : l \in {x \in shorter : Len(x) = n - 1},
                                        t \in PathTokens} :
                    Len(q) < 2 \/ q[Len(q) - 1] = "." \/ q[Len(q)] = "."}

\* path arguments: strings, and the non-strings undefined, null and 5
HelperPaths ==
  {SStr(q) : q \in TokenSeqs(MaxTokens)}
  \cup {SStr(<<"$">>), SStr(<<" ">>), pBad, tTAK,
        SStr(<<"obj", ".", "items", ".", "0">>),
        SStr(<<"obj", ".", "items", ".", "abc">>),
        SStr(<<"k", ".", "a", ".", "0">>),
        SStr(<<"k", ".", "items", ".", "0">>),
        SStr(<<"a", ".", "k", ".", "0">>),
        pItems0K, pItemsDot0K, SStr(<<"items[0]">>),
        SNone, [k |-> "null", s |-> <<>>], SNum}

HelperTargets == {Ref(1), Ref(4), Null, Undef, S("John"), Num(0)}
HelperValues == {Undef, Null, S("John"), Num(0), Ref(2)}

InitHelpers ==
  /\ impl = "helpers"
  /\ config = [isArray |-> FALSE, rules |-> <<>>]
  /\ heap \in HelperHeaps
  /\ source = Ref(1)
  /\ mapping = <<>>
  /\ validators = NoValidators
  /\ pc = "helpers"
  /\ idx = 0
  /\ out = 0
  /\ err = NoErr
  /\ result = Undef
  /\ ev = NoEv
  /\ heap0 = heap
  /\ calls = 0
  /\ prev = NoPrev
  /\ call = NoCall
  /\ vcall = NoVCall
  /\ written = <<>>

\* pathUtils.parsePath(p)
ParsePathCall ==
  /\ pc = "helpers" /\ call.op = "none"
  /\ \E p \in HelperPaths :
       LET r == parsePath(p) IN
       call' = [NoCall EXCEPT !.op = "parsePath", !.path = p, !.ok = r.ok,
                              !.e = r.e, !.segs = r.segs]
  /\ UNCHANGED <<impl, config, source, heap, mapping, validators, pc, idx, out,
                 err, result, ev, heap0, calls, prev,
                 vcall, written>>

\* extractor.extract(src, p)
ExtractCall ==
  /\ pc = "helpers" /\ call.op = "none"
  /\ \E src \in HelperTargets, p \in HelperPaths :
       LET r == extract(heap, src, p) IN
       call' = [NoCall EXCEPT !.op = "extract", !.target = src, !.path = p,
                              !.ok = r.ok, !.e = r.e, !.v = r.v]
  /\ UNCHANGED <<impl, config, source, heap, mapping, validators, pc, idx, out,
                 err, result, ev, heap0, calls, prev,
                 vcall, written>>

\* setter.set(target, p, value)
SetCall ==
  /\ pc = "helpers" /\ call.op = "none"
  /\ \E target \in HelperTargets, p \in HelperPaths, value \in HelperValues :
       LET r == set(heap, target, p, value) IN
       /\ heap' = r.h
       /\ call' = [NoCall EXCEPT !.op = "set", !.target = target, !.path = p,
                                 !.value = value, !.ok = r.ok, !.e = r.e,
                                 !.v = IF r.ok THEN target ELSE Undef]
  /\ UNCHANGED <<impl, config, source, mapping, validators, pc, idx, out, err,
                 result, ev, heap0, calls, prev,
                 vcall, written>>

NextHelpers == ParsePathCall \/ ExtractCall \/ SetCall

SpecHelpers == InitHelpers /\ [][NextHelpers]_vars

\* ------------------------------------------------------------------ the factory called directly
\* ValidatorFactory and the validators are exported classes; a caller makes
\* calls of getValidator, registerValidator and unregisterValidator on one
\* factory, and validates a value with the validator it got.

\* the caller's values: 1 is { a: 1, k: 2 }, 2 is { k: 2, a: 1 }, 3 is { a: 1 },
\* 4 is [{ a: 1, k: 2 }, { k: 2, a: 1 }], 5 is [15, 17], 6 is [0, 0], 7 is [],
\* 8 is [[15, 17]], 9 is ['John'], 10 is [{ a: 1, k: 2 }, { a: 1 }],
\* 11 is [1, 'John']
ValidatorHeap ==
  <<ObjectLiteral(<<Prop("a", Num(1)), Prop("k", Num(2))>>),
    ObjectLiteral(<<Prop("k", Num(2)), Prop("a", Num(1))>>),
    ObjectLiteral(<<Prop("a", Num(1))>>),
    ArrayLiteral(<<Ref(1), Ref(2)>>),
    ArrayLiteral(<<Num(15), Num(17)>>),
    ArrayLiteral(<<Num(0), Num(0)>>),
    ArrayLiteral(<<>>),
    ArrayLiteral(<<Ref(5)>>),
    ArrayLiteral(<<S("John")>>),
    ArrayLiteral(<<Ref(1), Ref(3)>>),
    ArrayLiteral(<<Num(1), S("John")>>)>>

tyNumber == SStr(<<"number">>)
tyArray == SStr(<<"array">>)

NumberValues == {Num(n) : n \in -6..6} \cup {Num(15), Num(17)}
OtherValues == {S("John"), Null, Undef, Bool(TRUE), Ref(1)}
ArrayValues == {Ref(a) : a \in 4..11}

NumberBags ==
  {Schema(tyNumber, [NoCons EXCEPT !.minimum = mn, !.maximum = mx, !.multipleOf = m]) :
     mn \in {Absent, Num(-3), Num(0), Num(2)},
     mx \in {Absent, Num(-3), Num(0), Num(5)},
     m \in {Absent, Num(0), Num(5), Num(-2), Num(3), S("d"), Null}}

ItemSchemas ==
  {<<>>,
   <<Schema(SNone, [NoCons EXCEPT !.minimum = Num(16)])>>,
   <<Schema(tyNumber, NoCons)>>,
   <<Schema(tyNumber, [NoCons EXCEPT !.minimum = Num(16)])>>,
   <<Schema(tyArray, [NoCons EXCEPT !.items = <<Schema(tyNumber, NoCons)>>])>>,
   <<Schema(tyArray, [NoCons EXCEPT
                        !.items = <<Schema(tyNumber,
                                           [NoCons EXCEPT !.maximum = Num(16)])>>])>>,
   <<Schema(SStr(<<"object">>), NoCons)>>,
   <<Schema(SStr(<<"foo">>), NoCons)>>}

ArrayBags ==
  {Schema(tyArray, [NoCons EXCEPT !.minItems = mn, !.maxItems = mx,
                                  !.uniqueItems = u, !.items = it]) :
     mn \in {Absent, Num(1), Num(2)}, mx \in {Absent, Num(0), Num(1)},
     u \in BOOLEAN, it \in ItemSchemas}

ValidateCase(tag, v, bag) == [tag |-> tag, value |-> v, bag |-> bag]

\* the validate calls made: a tag, a value and the constraint bag
ValidateCases ==
  {ValidateCase("number", v, b) :
     v \in NumberValues \cup {S("John"), Null, Undef}, b \in NumberBags}
  \cup {ValidateCase("integer", v, Schema(ty, NoCons)) :
          v \in {Num(1), S("John")}, ty \in {SStr(<<"integer">>), SNone}}
  \cup {ValidateCase("array", v, b) :
          v \in ArrayValues \cup {Ref(1), Null, Num(0)}, b \in ArrayBags}
  \cup {ValidateCase(t, v, Schema(SStr(<<t>>), NoCons)) :
          t \in {"string", "boolean", "object", "null", "foo"},
          v \in OtherValues \cup {Num(1), Ref(7)}}

GetTags == {"number", "integer", "array", "string", "foo"}
RegisterTags == {"number", "foo"}
RegisterClasses == {"CustomValidator", "StringValidator"}

InitValidators ==
  /\ impl = "factory"
  /\ config = [isArray |-> FALSE, rules |-> <<>>]
  /\ heap = ValidatorHeap
  /\ source = Ref(1)
  /\ mapping = <<>>
  /\ validators = NoValidators
  /\ pc = "factory"
  /\ idx = 0
  /\ out = 0
  /\ err = NoErr
  /\ result = Undef
  /\ ev = NoEv
  /\ heap0 = heap
  /\ calls = 0
  /\ prev = NoPrev
  /\ call = NoCall
  /\ vcall = NoVCall
  /\ written = <<>>

\* factory.getValidator(t)
GetValidatorCall ==
  /\ pc = "factory" /\ calls < MaxOps /\ vcall.op # "validate"
  /\ \E t \in GetTags :
       LET g == getValidator(validators, t) IN
       /\ validators' = g.cache
       /\ vcall' = [NoVCall EXCEPT !.op = "getValidator", !.before = validators,
                                   !.tag = t, !.inst = [cls |-> g.cls, id |-> g.id],
                                   !.created = g.created, !.ok = g.ok, !.e = g.e]
  /\ calls' = calls + 1
  /\ UNCHANGED <<impl, config, source, heap, mapping, pc, idx, out, err, result,
                 ev, heap0, prev, call, written>>

\* factory.registerValidator(t, Cls)
RegisterCall ==
  /\ pc = "factory" /\ calls < MaxOps /\ vcall.op # "validate"
  /\ \E t \in RegisterTags, Cls \in RegisterClasses :
       /\ validators' = registerValidator(validators, t, Cls)
       /\ vcall' = [NoVCall EXCEPT !.op = "registerValidator",
                                   !.before = validators, !.tag = t, !.cls = Cls]
  /\ calls' = calls + 1
  /\ UNCHANGED <<impl, config, source, heap, mapping, pc, idx, out, err, result,
                 ev, heap0, prev, call, written>>

\* factory.unregisterValidator(t)
UnregisterCall ==
  /\ pc = "factory" /\ calls < MaxOps /\ vcall.op # "validate"
  /\ \E t \in RegisterTags :
       /\ validators' = unregisterValidator(validators, t)
       /\ vcall' = [NoVCall EXCEPT !.op = "unregisterValidator",
                                   !.before = validators, !.tag = t]
  /\ calls' = calls + 1
  /\ UNCHANGED <<impl, config, source, heap, mapping, pc, idx, out, err, result,
                 ev, heap0, prev, call, written>>

\* factory.getValidator(t).validate(value, bag), as the first call on the
\* factory or the one after the first
ValidateCall ==
  /\ pc = "factory" /\ vcall.before = NoValidators /\ vcall.op # "validate"
  /\ \E c \in ValidateCases :
       LET g == getValidator(validators, c.tag)
           r == IF g.ok THEN validate(g.cls, g.cache, heap, c.value, c.bag)
                ELSE Validated(g.e, validators)
       IN /\ validators' = r.cache
          /\ vcall' = [NoVCall EXCEPT !.op = "validate", !.before = validators,
                                      !.tag = c.tag,
                                      !.inst = [cls |-> g.cls, id |-> g.id],
                                      !.created = g.created, !.ok = r.e = NoErr,
                                      !.e = r.e, !.value = c.value, !.bag = c.bag]
  /\ UNCHANGED <<impl, config, source, heap, mapping, pc, idx, out, err, result,
                 ev, heap0, calls, prev, call, written>>

\* the factory as the engine uses it: rules that name a type
TypeRules ==
  {Pass(pA, tT, ty, NoDefault, FALSE) :
     ty \in {tyString, tyNumber, SStr(<<"integer">>), SStr(<<"foo">>)}}

InitTypes == InitWith("engine", TypeRules, {S("John"), Num(0)})

NextValidators ==
  \/ GetValidatorCall \/ RegisterCall \/ UnregisterCall \/ ValidateCall
  \/ Construct \/ TransformBegin \/ ApplyRule \/ TransformReturn

SpecValidators == (InitValidators \/ InitTypes) /\ [][NextValidators]_vars

\* ------------------------------------------------------------------ observations

\* structural equality of two values in two heaps (own enumerable properties),
\* compared down to depth d
RECURSIVE StructEq(_, _, _, _, _)
StructEq(h1, v1, h2, v2, d) ==
  IF d = 0 THEN TRUE
  ELSE IF v1.k = "ref" /\ v2.k = "ref"
    THEN /\ h1[v1.n].arr = h2[v2.n].arr
         /\ \A key \in Keys :
              LET x == IF key \in h1[v1.n].hidden THEN Absent ELSE h1[v1.n].f[key]
                  y == IF key \in h2[v2.n].hidden THEN Absent ELSE h2[v2.n].f[key]
              IN StructEq(h1, x, h2, y, d - 1)
  ELSE v1 = v2

\* the addresses of the containers reachable from a value
RECURSIVE Closure(_, _)
Closure(h, A) ==
  LET C == A \cup {h[a].f[key].n : <<a, key>> \in {p \in A \X Keys : h[p[1]].f[p[2]].k = "ref"}}
  IN IF C = A THEN A ELSE Closure(h, C)

Reach(h, v) == IF v.k = "ref" THEN Closure(h, {v.n}) ELSE {}

\* output[target] as a caller reads it
ReadAt(h, o, tgt) == extract(h, Ref(o), tgt).v

\* whether the output has an own key at the target path
HasKeyAt(h, o, tgt) ==
  LET segs == parsePath(tgt).segs
      parent == Walk(h, Ref(o), SubSeq(segs, 1, Len(segs) - 1), 1)
  IN parent.k = "ref" /\ HasOwn(h, parent.n, segs[Len(segs)])

\* s occurs in the message m
Contains(m, s) == \E i \in 1..(Len(m) - Len(s) + 1) : SubSeq(m, i, i + Len(s) - 1) = s

\* the rule evaluated last by the running or finished transform call
Evaluated == ev.i > 0
Rl == mapping[ev.i]
IsPassthrough(rule) == rule.transform.k # "function"
AbsentOrNull(v) == v.k \in {"undefined", "null"}

\* the validator registered for the rule's type accepts v
Accepts(rule, v) ==
  /\ rule.type.k = "string"
  /\ rule.type.s # <<>>
  /\ rule.type.s[1] \in TypeTags
  /\ validate(validatorClasses[rule.type.s[1]], NoValidators, heap, v, rule).e = NoErr

\* ------------------------------------------------------------------ claims
\* C1: the default is applied before the required check: a required rule with a
\* default whose transform/passthrough value is undefined or null does not fail
\* with the required-field error and, when the default passes validation, the
\* output at the rule's target equals the default.
C1_DefaultBeforeRequired ==
  (/\ Evaluated
   /\ Rl.required
   /\ Rl.default.k # "absent"
   /\ ~Rl.default.throws
   /\ AbsentOrNull(ev.stepV))
  => /\ ev.e # RequiredError(Rl)
     /\ Accepts(Rl, Rl.default.v) => ev.ok /\ ReadAt(heap, out, Rl.target) = Rl.default.v

\* C2: every failure raised while a rule is evaluated reaches the caller as one
\* Error whose message is: Transformation failed at field "<target>": <original
\* message>, whatever was thrown (an Error, a string, null or undefined).
C2_EveryFailureWrapped ==
  pc = "threw"
  => err = Error(<<"Transformation failed at field \"">> \o Rl.target.s
                 \o <<"\": ">> \o ev.e.m)

\* C3: transform never mutates the source record: during and after every call
\* the source is structurally what it was when the call began.
C3_SourceNotMutated ==
  pc \in {"running", "returned", "threw"}
  => StructEq(heap, source, heap0, source, Depth)

\* C4: a rule that is not required and has no default, whose value after the
\* transform/passthrough step is undefined, does not fail and leaves no key at
\* its target.
C4_AbsentOptionalWritesNothing ==
  (/\ Evaluated
   /\ ~Rl.required
   /\ Rl.default.k = "absent"
   /\ ev.stepV.k = "undefined")
  => ev.ok /\ ~HasKeyAt(heap, out, Rl.target)

\* C5: the default triggers exactly on absence: for a passthrough rule with a
\* default, the output at the target equals the default when the extracted
\* value is undefined or null, and the extracted value itself when it is
\* present (including '', 0 and false); the value written being one the rule's
\* validator accepts.
C5_DefaultExactlyOnAbsence ==
  (/\ Evaluated
   /\ IsPassthrough(Rl)
   /\ Rl.default.k # "absent"
   /\ ~Rl.default.throws
   /\ ev.stepV.k # "absent"
   /\ Accepts(Rl, IF AbsentOrNull(ev.stepV) THEN Rl.default.v ELSE ev.stepV))
  => ReadAt(heap, out, Rl.target)
       = IF AbsentOrNull(ev.stepV) THEN Rl.default.v ELSE ev.stepV

\* C6: a required rule for which no value survives defaulting (the value is
\* undefined or null and no default supplies one) makes transform fail with a
\* message that contains the rule's target and the word "required".
C6_RequiredMissingFails ==
  (/\ Evaluated
   /\ Rl.required
   /\ AbsentOrNull(ev.stepV)
   /\ Rl.default.k = "absent")
  => /\ pc = "threw"
     /\ Contains(err.m, Rl.target.s)
     /\ Contains(err.m, <<"\" is required">>)

\* C7: a rule with more than one key in sources and no transform function makes
\* transform fail, and the named input object is never written to the target.
C7_AmbiguousPassthroughFails ==
  (/\ Evaluated
   /\ Rl.sources.k = "object"
   /\ NumKeys(Rl.sources) > 1
   /\ IsPassthrough(Rl))
  => pc = "threw" /\ ~ev.wrote

\* C8: identity passthrough: a rule with no transform and exactly one sources
\* entry whose extracted value is present and passes validation leaves, once it
\* has been evaluated, the source value of that entry's path at its target.
C8_IdentityPassthrough ==
  (/\ Evaluated
   /\ ev.ok
   /\ IsPassthrough(Rl)
   /\ NumKeys(Rl.sources) = 1
   /\ ~AbsentOrNull(extract(heap0, source, Rl.sources.e[1].path).v)
   /\ Accepts(Rl, extract(heap0, source, Rl.sources.e[1].path).v))
  => ReadAt(heap, out, Rl.target) = extract(heap0, source, Rl.sources.e[1].path).v

\* C9: the output of a successful transform never aliases the source: no
\* container reachable from the returned output is the source or a container
\* reachable from the source.
C9_OutputNeverAliasesSource ==
  pc = "returned" => Reach(heap, result) \cap Reach(heap0, source) = {}

\* C10: construction succeeds if and only if the config is an array and every
\* rule has sources that is a non-array object with at least one key, a
\* non-empty string target, a non-empty string type, and a transform that is
\* absent or a function.
WellFormedRule(rule) ==
  /\ rule.isObj
  /\ rule.sources.k = "object"
  /\ NumKeys(rule.sources) >= 1
  /\ rule.target.k = "string" /\ rule.target.s # <<>>
  /\ rule.type.k = "string" /\ rule.type.s # <<>>
  /\ rule.transform.k \in {"absent", "null", "function"}

C10_ConstructionIffWellFormed ==
  pc # "new"
  => ((pc # "ctorThrew")
        <=> (config.isArray /\ \A i \in 1..Len(config.rules) : WellFormedRule(config.rules[i])))

\* the field the documented checks (sources, target, type, transform, in that
\* order) find at fault in a rule that is not well-formed
OffendingField(rule) ==
  IF ~rule.isObj \/ rule.sources.k # "object" \/ NumKeys(rule.sources) = 0
    THEN "sources"
  ELSE IF rule.target.k # "string" \/ rule.target.s = <<>> THEN "target"
  ELSE IF rule.type.k # "string" \/ rule.type.s = <<>> THEN "type"
  ELSE "transform"

\* C11: when construction fails because of a rule, the error message names the
\* index of the first rule of the list that is not well-formed and the first
\* field of that rule at fault (sources, target, type, transform), whatever the
\* list element is, null included.
C11_ErrorNamesRuleAndField ==
  (pc = "ctorThrew" /\ config.isArray)
  => \E i \in 1..Len(config.rules) :
       /\ ~WellFormedRule(config.rules[i])
       /\ \A j \in 1..(i - 1) : WellFormedRule(config.rules[j])
       /\ Contains(err.m, <<"Rule at index ", IdxTok(i - 1), ": \"",
                            OffendingField(config.rules[i]), "\"">>)

\* C12: transform writes no shared engine state: during and after every call
\* the rule list and the validator registry's cache are what they were right
\* after construction.
C12_NoSharedStateWrites ==
  pc \in {"running", "returned", "threw"}
  => validators = NoValidators /\ mapping = CopyRules(config.rules)

\* C13: transform is repeatable: a call on the same engine with the same source
\* ends the way the previous call ended (returns when it returned, fails with
\* the same error when it failed), and a returned output is a new object
\* structurally equal to the previous call's output.
C13_TransformRepeatable ==
  (pc \in {"returned", "threw"} /\ prev.pc \in {"returned", "threw"})
  => /\ pc = prev.pc
     /\ pc = "threw" => err = prev.err
     /\ pc = "returned"
          => /\ result # prev.result
             /\ StructEq(heap0, prev.result, heap, result, Depth)

\* C14: neither construction nor transform mutates the caller's rule list: no
\* rule object of the caller gets a bookkeeping field, and the objects the
\* rules hold (a default that is an object literal) are, during and after every
\* call, structurally what they were when the call began.
C14_MappingNotMutated ==
  pc # "new"
  => /\ \A i \in 1..Len(config.rules) : config.rules[i].index = -1
     /\ pc \in {"running", "returned", "threw"}
          => StructEq(heap, DefaultObject, heap0, DefaultObject, Depth)

\* C15: write-then-read round trip: after a successful set(target, path, value)
\* reading the same path from the target yields exactly that value.
C15_WriteThenRead ==
  (call.op = "set" /\ call.ok)
  => extract(heap, call.target, call.path).v = call.value

\* ------------------------------------------------------------------ claims on the helpers
\* a path string the documented rules accept: not empty, no dot at either end,
\* no two dots in a row
WellFormedPath(p) ==
  /\ p.k = "string"
  /\ Len(p.s) > 0
  /\ p.s[1] # "." /\ p.s[Len(p.s)] # "."
  /\ \A i \in 1..(Len(p.s) - 1) : ~(p.s[i] = "." /\ p.s[i + 1] = ".")

\* the node reached from src after the first i segments; undefined once a node
\* on the way is null or undefined
RECURSIVE NodeAt(_, _, _, _)
NodeAt(h, src, segs, i) ==
  IF i = 0 THEN src
  ELSE LET before == NodeAt(h, src, segs, i - 1) IN
    IF before.k \in {"null", "undefined"} THEN Undef
    ELSE GetProp(h, before, segs[i])

\* a set call that got past its argument checks, and the segments of its path
SetReachedLoop ==
  /\ call.op = "set"
  /\ call.target.k = "ref" /\ ~heap0[call.target.n].arr
  /\ WellFormedPath(call.path)
  /\ call.path.s \notin {<<"$">>, <<" ">>}

CallSegs == parsePath(call.path).segs
Was(i) == NodeAt(heap0, call.target, CallSegs, i)

\* the intermediate segments that were absent before the call
AbsentSegs ==
  {i \in 1..(Len(CallSegs) - 1) :
     /\ Was(i).k = "undefined"
     /\ \A j \in 1..(i - 1) : Was(j).k \in {"ref", "undefined"}}

ItemsConflict(i) == CallSegs[i] = "items" /\ ~IsDigits(CallSegs[i + 1])

\* C16: for an absent intermediate segment, set creates an array exactly when
\* the segment is named items and the next segment is all digits; it fails with
\* Cannot set non-numeric property "<next>" on non-existent array when the
\* segment is items and the next one is not numeric, creating nothing for that
\* segment; for every other name it creates a plain object.
C16_ContainerCreation ==
  SetReachedLoop
  => \A i \in AbsentSegs :
       LET conflicts == {j \in AbsentSegs : j <= i /\ ItemsConflict(j)}
           first == CHOOSE j \in AbsentSegs : \A l \in AbsentSegs : j <= l
           created == Len(heap0) + (i - first) + 1
       IN IF conflicts # {}
            THEN LET c == CHOOSE j \in conflicts : \A l \in conflicts : j <= l IN
                 /\ ~call.ok
                 /\ call.e = Error(<<"Cannot set non-numeric property \"",
                                     CallSegs[c + 1], "\" on non-existent array">>)
                 /\ Len(heap) < created
          ELSE /\ created <= Len(heap)
               /\ heap[created].arr
                    <=> (CallSegs[i] = "items" /\ IsDigits(CallSegs[i + 1]))

\* C16 witness: a set call created an array for items and a plain object for
\* the segment before it.
C16_Witness ==
  /\ call.op = "set" /\ call.ok
  /\ call.path = SStr(<<"k", ".", "items", ".", "0">>)
  /\ Len(heap) = Len(heap0) + 2
  /\ ~heap[Len(heap0) + 1].arr /\ heap[Len(heap0) + 2].arr

\* C17: when an intermediate segment already holds a scalar or null, set fails
\* with Cannot set property "<next segment>" on non-object value at path
\* "<prefix>", the prefix being the dot-joined path up to and including that
\* segment, and the value stays in place.
C17_NonContainerTraversal ==
  SetReachedLoop
  => \A i \in 1..(Len(CallSegs) - 1) :
       (/\ Was(i).k \in {"null", "string", "number", "boolean"}
        /\ \A j \in 1..(i - 1) : Was(j).k = "ref")
       => /\ ~call.ok
          /\ call.e = Error(<<"Cannot set property \"", CallSegs[i + 1],
                              "\" on non-object value at path \"">>
                            \o Join(SubSeq(CallSegs, 1, i)) \o <<"\"">>)
          /\ NodeAt(heap, call.target, CallSegs, i) = Was(i)

\* C17 witness: a set call through a.k.0 failed on the string held at a.
C17_Witness ==
  /\ call.op = "set" /\ ~call.ok
  /\ call.path = SStr(<<"a", ".", "k", ".", "0">>)
  /\ call.target = Ref(1)
  /\ heap0[1].f["a"] = S("John")
  /\ heap[1].f["a"] = S("John")

\* C18: set rejects, leaving every object as it was, a null or undefined
\* target (Target object cannot be null or undefined), a target that is not an
\* object or is an array (Target must be an object), and for a plain-object
\* target a path that is not a string, is empty or whitespace-only, or is "$"
\* or "." (Path must be a non-empty string for setting values).
C18_SetRejectsBadArguments ==
  call.op = "set"
  => /\ call.target.k \in {"null", "undefined"}
          => /\ ~call.ok /\ heap = heap0
             /\ call.e = Error(<<"Target object cannot be null or undefined">>)
     /\ (call.target.k \in {"string", "number", "boolean"}
          \/ (call.target.k = "ref" /\ heap0[call.target.n].arr))
          => /\ ~call.ok /\ heap = heap0
             /\ call.e = Error(<<"Target must be an object">>)
     /\ (/\ call.target.k = "ref" /\ ~heap0[call.target.n].arr
         /\ \/ call.path.k # "string"
            \/ call.path.s \in {<<>>, <<" ">>, <<"$">>, <<".">>})
          => /\ ~call.ok /\ heap = heap0
             /\ call.e = Error(<<"Path must be a non-empty string for setting values">>)

\* C18 witness: a set call with a whitespace-only path on a plain object was
\* rejected.
C18_Witness ==
  /\ call.op = "set" /\ ~call.ok
  /\ call.target = Ref(1)
  /\ call.path = SStr(<<" ">>)

\* C19: parsePath fails exactly when the path is null or undefined, not a
\* string, empty, made only of dots, starts or ends with a dot or has two dots
\* in a row; otherwise it returns the segments in order, each non-empty, and
\* joining them with "." gives back the path.
C19_ParsePath ==
  call.op = "parsePath"
  => /\ call.ok <=> WellFormedPath(call.path)
     /\ call.ok
          => /\ \A i \in 1..Len(call.segs) : call.segs[i] \notin {"", "."}
             /\ Join(call.segs) = call.path.s

\* C19 witness: parsePath returned the three segments of a five-token path.
C19_Witness ==
  /\ call.op = "parsePath" /\ call.ok
  /\ call.path = tTAK
  /\ call.segs = <<"t", "a", "k">>

\* C20: extract never fails on missing data: for a well-formed path it returns
\* undefined as soon as the node reached before a segment is null or
\* undefined, and otherwise the value found by following all segments; for the
\* root sentinel (an empty or absent path, or "$") it returns the source itself.
C20_ExtractTotal ==
  call.op = "extract"
  => /\ (call.path.k \in {"absent", "null"} \/ call.path.s \in {<<>>, <<"$">>})
          => call.ok /\ call.v = call.target
     /\ (WellFormedPath(call.path) /\ call.path.s # <<"$">>)
          => /\ call.ok
             /\ call.v =
                  IF \E i \in 0..(Len(CallSegs) - 1) :
                       NodeAt(heap, call.target, CallSegs, i).k \in {"null", "undefined"}
                    THEN Undef
                  ELSE NodeAt(heap, call.target, CallSegs, Len(CallSegs))

\* C20 witness: extract of a.k from a record whose a is null returned undefined.
C20_Witness ==
  /\ call.op = "extract" /\ call.ok
  /\ call.target = Ref(1)
  /\ call.path = SStr(<<"a", ".", "k">>)
  /\ heap[1].f["a"] = Null
  /\ call.v = Undef

NumberValidated ==
  /\ vcall.op = "validate" /\ vcall.inst.cls = "NumberValidator"
  /\ vcall.value.k = "number"

\* C22: the bounds of NumberValidator.  For a number and a rule without
\* multipleOf, validation fails exactly when the value is below a minimum
\* that is set, or above a maximum >= 0 that is set, or greater in absolute
\* value than a maximum < 0 that is set; the message names the bound that
\* failed, the minimum first.
C22_NumberBounds ==
  (NumberValidated /\ vcall.bag.cons.multipleOf = Absent) =>
    LET v == vcall.value.n
        mn == vcall.bag.cons.minimum
        mx == vcall.bag.cons.maximum
        below == mn # Absent /\ v < mn.n
        above == /\ mx # Absent
                 /\ IF mx.n >= 0 THEN v > mx.n
                    ELSE (IF v < 0 THEN -v ELSE v) > -mx.n
    IN /\ ~vcall.ok <=> (below \/ above)
       /\ below =>
            vcall.e = Error(<<"Number ", ToString(v), " is less than minimum ",
                              ToString(mn.n)>>)
       /\ (~below /\ above) =>
            vcall.e = Error(<<"Number ", ToString(v), " is greater than maximum ",
                              ToString(mx.n)>>)

\* C22 witness: validate(-5, { maximum: -3 }) failed
C22_Witness ==
  /\ NumberValidated /\ vcall.value = Num(-5)
  /\ vcall.bag.cons = [NoCons EXCEPT !.maximum = Num(-3)]
  /\ vcall.e = Error(<<"Number ", "-5", " is greater than maximum ", "-3">>)

\* ------------------------------------------------------------------ C23
\* a validate call that reached a NumberValidator with multipleOf zero or not
\* a number
BadMultipleOf ==
  /\ vcall.op = "validate" /\ vcall.inst.cls = "NumberValidator"
  /\ vcall.bag.cons.multipleOf # Absent
  /\ (vcall.bag.cons.multipleOf.k # "number" \/ vcall.bag.cons.multipleOf.n = 0)

\* m divides v
Divides(m, v) == \E q \in -(IF v < 0 THEN -v ELSE v)..(IF v < 0 THEN -v ELSE v) : q * m = v

\* for an integer value and a non-zero integer multipleOf the multipleOf
\* check fails exactly when multipleOf does not divide the value
MultipleOfDivides ==
  (NumberValidated /\ vcall.bag.cons.multipleOf.k = "number"
   /\ vcall.bag.cons.multipleOf.n # 0) =>
    LET v == vcall.value.n
        mo == vcall.bag.cons.multipleOf.n
        notMultiple == Error(<<"Number ", ToString(v), " is not a multiple of ",
                               ToString(mo)>>)
    IN /\ vcall.e = notMultiple <=> ~Divides(mo, v)
       /\ (vcall.bag.cons.minimum = Absent /\ vcall.bag.cons.maximum = Absent) =>
            (vcall.ok <=> Divides(mo, v))

ItemsPass(fac, v, items) ==
  \A i \in 1..Length(heap, v) :
    LET g == getValidator(fac, items.type.s[1]) IN
    g.ok /\ validate(g.cls, g.cache, heap, Item(heap, v, i), items).e = NoErr

\* C24: ArrayValidator.validate accepts a value exactly when it is an array,
\* its length is at least minItems and at most maxItems where those are set,
\* no two of its elements are structurally equal when uniqueItems is set, and
\* every element passes the validator of items.type when items declares a
\* type.
C24_ArrayAccepts ==
  (vcall.op = "validate" /\ vcall.inst.cls = "ArrayValidator") =>
    LET v == vcall.value
        c == vcall.bag.cons
    IN vcall.ok <=>
         /\ IsArray(heap, v)
         /\ c.minItems # Absent => Length(heap, v) >= c.minItems.n
         /\ c.maxItems # Absent => Length(heap, v) <= c.maxItems.n
         /\ c.uniqueItems =>
              \A i, j \in 1..Length(heap, v) :
                i # j => ~StructEq(heap, Item(heap, v, i), heap, Item(heap, v, j), Depth)
         /\ (Len(c.items) = 1 /\ ~SFalsy(c.items[1].type)) =>
              ItemsPass(vcall.before, v, c.items[1])

\* ------------------------------------------------------------------ C25
\* C25: selectors in bracket notation are supported: extracting items[0].k
\* from a source gives what extracting items.0.k from it gives.
C25_BracketSelectors ==
  (call.op = "extract" /\ call.path = pItems0K)
  => /\ call.ok = extract(heap, call.target, pItemsDot0K).ok
     /\ call.v = extract(heap, call.target, pItemsDot0K).v

\* ------------------------------------------------------------------ C26
\* the value of a rule after the default stage, from the value of its
\* transform step
FinalValue(rule, stepV) ==
  IF AbsentOrNull(stepV) /\ rule.default.k # "absent" THEN rule.default.v
  ELSE stepV

\* the last rule evaluated got as far as validation, with a registered type
ReachedValidation ==
  /\ impl = "engine" /\ Evaluated
  /\ ev.stage \in {"default", "validated", "done"}
  /\ ~SFalsy(Rl.type) /\ Rl.type.s[1] \in TypeTags

\* C26: the validator is handed the final value, the one after the transform
\* step and after the default.  The rule passes validation exactly when the
\* validator of its type accepts the final value; when it does not (a default
\* that violates the type or a constraint included) transform throws the
\* validator's error wrapped with the target and the rule writes nothing.
C26_ValidationSeesFinalValue ==
  ReachedValidation =>
    LET final == FinalValue(Rl, ev.stepV)
        thrown == validate(validatorClasses[Rl.type.s[1]], NoValidators, heap,
                           final, Rl).e
    IN /\ ev.v = final
       /\ thrown = NoErr => ev.stage \in {"validated", "done"}
       /\ thrown # NoErr =>
            /\ pc = "threw" /\ ~ev.wrote /\ ev.stage = "default"
            /\ err = Error(<<"Transformation failed at field \"">> \o Rl.target.s
                           \o <<"\": ">> \o thrown.m)
            /\ ev.i = 1 => heap[out].f = EmptyFields

\* C26 witness: a absent, the rule's default 'd' applied, type number: the
\* transform failed on the default
C26_Witness ==
  /\ ReachedValidation /\ pc = "threw"
  /\ AbsentOrNull(ev.stepV)
  /\ Rl.default = Default(S("d"))
  /\ err = Error(<<"Transformation failed at field \"", "t", "\": ",
                   "Expected type ", "number", " but got ", "string">>)

\* ------------------------------------------------------------------ C27
\* C27: transform is fail-fast.  The rule that fails ends the call: transform
\* has thrown, no later rule has been evaluated (the failed rule stays the
\* last one evaluated until the next call), and nothing is returned; a call
\* that returns has evaluated every rule of the list successfully.
C27_FailFast ==
  /\ (Evaluated /\ ~ev.ok) =>
       /\ pc = "threw"
       /\ idx = ev.i
       /\ result = Undef
       /\ err # NoErr
  /\ pc = "threw" => (Evaluated /\ ~ev.ok)
  /\ pc = "returned" =>
       /\ err = NoErr
       /\ Len(mapping) > 0 => (ev.ok /\ ev.i = Len(mapping))

\* C27 witness: the first of two rules failed and transform threw
C27_Witness ==
  /\ pc = "threw" /\ Len(mapping) = 2 /\ ev.i = 1 /\ ~ev.ok
  /\ result = Undef

\* ------------------------------------------------------------------ C28
\* setter.set applied to the record o once per logged write, in order
RECURSIVE Replay(_, _, _, _)
Replay(h, o, log, i) ==
  IF i > Len(log) THEN h
  ELSE Replay(set(h, Ref(o), log[i].target, log[i].v).h, o, log, i + 1)

\* C28: rules are evaluated in list order and their writes accumulate.  Every
\* rule of a successful transform was evaluated, in order; the output equals
\* what ValueSetter.set gives when applied to an empty record once per rule,
\* in list order, with the rule's final value; and when the last rule has
\* the target of an earlier rule, its value is the one read at that target.
C28_WritesAccumulate ==
  pc = "returned" =>
    /\ Len(written) = Len(mapping)
    /\ \A i \in 1..Len(written) : written[i].target = mapping[i].target
    /\ StructEq(heap, result,
                Replay(Alloc(heap, FALSE), Len(heap) + 1, written, 1),
                Ref(Len(heap) + 1), Depth)
    /\ \A i \in 1..(Len(written) - 1) :
         written[i].target = written[Len(written)].target =>
           ReadAt(heap, out, written[i].target) = written[Len(written)].v

\* ------------------------------------------------------------------ C29
\* C29: the chaining helper never replaces or blocks a data value.  A set call
\* whose path starts with the segment set fails only as the same call would
\* for another key (never with a read-only error), and after a successful one
\* reading the path from the target yields the value written.
C29_HelperKeepsData ==
  (SetReachedLoop /\ CallSegs[1] = "set")
  => /\ call.e.k # "TypeError"
     /\ call.ok => extract(heap, call.target, call.path).v = call.value

====
